---- MODULE Spec2Model ----
(***************************************************************************)
(* A model of four parts of the GitHub Pull Requests extension:            *)
(*   - CredentialStore (src/src/github/credentials.ts): session and hub    *)
(*     bookkeeping, the sign-in notification and the login retry loop;     *)
(*   - CreatePullRequestViewProvider (src/src/github/createPRViewProvider. *)
(*     ts): resolveWebviewView / initializeParams and the create handler;  *)
(*   - getTitleAndDescription of the same file, as a function;             *)
(*   - PullRequestViewProvider (src/src/github/common.ts): the             *)
(*     'pr.merge' and 'pr.update-branch' handlers.                         *)
(* Each part has its own specification over the shared variables; the      *)
(* variables of the other parts stay at their initial values.              *)
(*                                                                         *)
(* JavaScript's undefined is the string "undefined"; option fields hold    *)
(* the strings "undefined", "true", "false" or "detail" (an object).       *)
(* What the editor, the user, git and GitHub answer is drawn with \E.      *)
(***************************************************************************)
EXTENDS Integers, Sequences, FiniteSets, TLC

undefined == "undefined"

Truthy(x) == x \notin {"undefined", "false", ""}

(***************************************************************************)
(*                       CredentialStore                                   *)
(***************************************************************************)

VARIABLES
    githubAPI,            \* _githubAPI: the hub of github.com, or undefined
    sessionId,            \* _sessionId
    githubEnterpriseAPI,  \* _githubEnterpriseAPI
    enterpriseSessionId,  \* _enterpriseSessionId
    isInitialized,        \* _isInitialized
    scopes,               \* _scopes
    scopesEnterprise,     \* _scopesEnterprise
    isSamling,            \* _isSamling
    promptForSignIn,      \* PersistentState 'prompt for sign in'/'login'
    enterpriseUri,        \* whether the github-enterprise.uri setting is set
    pc,                   \* where the running CredentialStore operation stands
    op,                   \* the public method that is running or ran last
    authProviderId,       \* its provider argument
    options,              \* the AuthenticationGetSessionOptions object in use
    initScopes,           \* the scopes argument of the pending initialize call
    requireScopes,        \* the requireScopes argument of that call
    enterprise,           \* doCreate: the AuthResult of the enterprise provider
    octokit,              \* login: the local octokit
    isCanceled,           \* login: the local isCanceled
    answer,               \* login: what the error prompt was answered
    tries,                \* login: iterations of the retry loop so far
    telemetry,            \* events sent by the operation that is running or ran last
    shown,                \* messages shown by that operation
    result,               \* what the last finished operation returned or threw
    lastInit              \* the outcome of initialize when the last step ran it

credVars == <<githubAPI, sessionId, githubEnterpriseAPI, enterpriseSessionId,
              isInitialized, scopes, scopesEnterprise, isSamling,
              promptForSignIn, enterpriseUri, pc, op, authProviderId, options,
              initScopes, requireScopes, enterprise, octokit, isCanceled, answer,
              tries, telemetry, shown, result, lastInit>>

\* The passes of the retry loop of login that the model follows.
MaxTries == 2

github == "github"
githubEnterprise == "github-enterprise"
AuthProvider == {github, githubEnterprise}

\* The sessions the authentication provider can hand out.
Sessions == {"s1"}

TRY_AGAIN == "Try again?"
CANCEL == "Cancel"
SIGNIN_COMMAND == "Sign In"
IGNORE_COMMAND == "Don't Show Again"

SCOPES_OLDEST == {"read:user", "user:email", "repo"}
SCOPES_OLD == {"read:user", "user:email", "repo", "workflow"}
SCOPES_WITH_ADDITIONAL == {"read:user", "user:email", "repo", "workflow", "project", "read:org"}
ScopeLists == {SCOPES_OLDEST, SCOPES_OLD, SCOPES_WITH_ADDITIONAL}

\* An absent scopes argument (the parameter's default applies).
NoScopes == {}

NotConsent == "User did not consent to login."
Cancelled == "Cancelled"
BadCredentials == "Bad credentials"
OtherError == "Error"

isEnterprise(p) == p = githubEnterprise

hasEnterpriseUri(uri) == uri

\* The fields of the store that initialize reads and writes, as one record.
Store == [githubAPI |-> githubAPI, sessionId |-> sessionId,
          githubEnterpriseAPI |-> githubEnterpriseAPI,
          enterpriseSessionId |-> enterpriseSessionId,
          isInitialized |-> isInitialized, scopes |-> scopes,
          scopesEnterprise |-> scopesEnterprise, isSamling |-> isSamling]

getHub(st, p) == IF ~isEnterprise(p) THEN st.githubAPI ELSE st.githubEnterpriseAPI

isAuthenticated(st, p) == getHub(st, p) # undefined

NoOptions == [createIfNone |-> undefined, forceNewSession |-> undefined, silent |-> undefined]

\* What the editor's authentication API answers during one initialize call:
\*   silent: the scope lists for which a silent getSession finds a session,
\*   sid:    the id of the session it hands out,
\*   get:    the outcome of the getSession call made with the caller's options,
\*   hub:    the outcome of createHub.
AllSessionEnv == [silent : SUBSET ScopeLists, sid : Sessions,
                  get : {"session", undefined, NotConsent, Cancelled, OtherError},
                  hub : {"ok", BadCredentials, OtherError}]

\* The answers that differ in something initialize asks for: findExistingScopes is
\* skipped under forceNewSession or requireScopes, getSession is not called with the
\* caller's options once an existing session was found, and createHub is not called
\* without a session.
SessionEnv(opts, requireScopesArg) ==
    {env \in AllSessionEnv :
        /\ (Truthy(opts.forceNewSession) \/ requireScopesArg) => env.silent = {}
        /\ env.silent # {} => env.get = undefined
        /\ (env.silent = {} /\ env.get # "session") => env.hub = "ok"}

\* findExistingScopes: the first scope list, in preference order, with a session.
findExistingScopes(env) ==
    IF SCOPES_WITH_ADDITIONAL \in env.silent
    THEN [session |-> env.sid, scopes |-> SCOPES_WITH_ADDITIONAL]
    ELSE IF SCOPES_OLD \in env.silent
    THEN [session |-> env.sid, scopes |-> SCOPES_OLD]
    ELSE IF SCOPES_OLDEST \in env.silent
    THEN [session |-> env.sid, scopes |-> SCOPES_OLDEST]
    ELSE [session |-> undefined, scopes |-> NoScopes]

\* getSession: [threw, message, session, isNew, scopes].
getSession(opts, scopesArg, requireScopesArg, env) ==
    LET existingSession ==
            IF Truthy(opts.forceNewSession) \/ requireScopesArg
            THEN [session |-> undefined, scopes |-> NoScopes]
            ELSE findExistingScopes(env)
    IN  IF existingSession.session # undefined
        THEN [threw |-> FALSE, message |-> "", session |-> existingSession.session,
              isNew |-> FALSE, scopes |-> existingSession.scopes]
        ELSE IF env.get \in {NotConsent, Cancelled, OtherError}
        THEN [threw |-> TRUE, message |-> env.get, session |-> undefined,
              isNew |-> FALSE, scopes |-> NoScopes]
        ELSE [threw |-> FALSE, message |-> "",
              session |-> IF env.get = "session" THEN env.sid ELSE undefined,
              isNew |-> env.get = "session",
              scopes |-> IF requireScopesArg THEN scopesArg ELSE SCOPES_OLD]

\* A catch block that leaves the scopes as the try block set them.
scopesNotRestored(st, oldScopes, oldEnterpriseScopes) == st

\* The state after the catch block of initialize restored the scopes.
restoreScopes(st, oldScopes, oldEnterpriseScopes) ==
    [st EXCEPT !.scopes = oldScopes, !.scopesEnterprise = oldEnterpriseScopes]

\* Whether the catch block of initialize swallows the error of getSession.
continueAsUsual(opts, userCanceld) == Truthy(opts.forceNewSession) /\ userCanceld

\* The part of initialize that runs once a session was found and createHub
\* returned or threw something that is not retried: hub is the hub or undefined.
setHub(st, p, hub, usedScopes, isNew) ==
    LET st1 == IF ~isEnterprise(p)
               THEN [st EXCEPT !.githubAPI = hub, !.scopes = usedScopes]
               ELSE [st EXCEPT !.githubEnterpriseAPI = hub, !.scopesEnterprise = usedScopes]
    IN  IF ~st1.isInitialized \/ (isNew /\ ~st1.isSamling)
        THEN [st1 EXCEPT !.isInitialized = TRUE]
        ELSE st1

\* One call of initialize, up to its return, its throw, or its tail call of itself
\* after 'Bad credentials' (outcome "recurse", to be run again with opts and scopes).
\*   error:  the message getSession threw, or ""
\*   events: the telemetry sent; shown: the messages shown
initialize(st, p, opts0, scopesArg, requireScopesArg, uri, env) ==
    IF isEnterprise(p) /\ ~hasEnterpriseUri(uri)
    THEN [st |-> st, outcome |-> "return", canceled |-> FALSE, error |-> "",
          opts |-> opts0, scopes |-> scopesArg, events |-> <<>>, shown |-> <<>>]
    ELSE
    LET opts == IF opts0.createIfNone = undefined /\ opts0.forceNewSession = undefined
                THEN [opts0 EXCEPT !.createIfNone = "false"]
                ELSE opts0
        scopesV == IF scopesArg # NoScopes THEN scopesArg
                   ELSE IF ~isEnterprise(p) THEN st.scopes ELSE st.scopesEnterprise
        oldScopes == st.scopes
        oldEnterpriseScopes == st.scopesEnterprise
        st1 == IF ~isEnterprise(p) THEN [st EXCEPT !.scopes = scopesV]
               ELSE [st EXCEPT !.scopesEnterprise = scopesV]
        r == getSession(opts, scopesV, requireScopesArg, env)
        userCanceld == r.message = NotConsent
    IN  IF r.threw
        THEN LET st2 == restoreScopes(st1, oldScopes, oldEnterpriseScopes)
             IN  IF continueAsUsual(opts, userCanceld)
                 THEN [st |-> st2, outcome |-> "return", canceled |-> userCanceld,
                       error |-> r.message, opts |-> opts, scopes |-> scopesV,
                       events |-> <<>>, shown |-> <<>>]
                 ELSE [st |-> st2, outcome |-> "throw", canceled |-> userCanceld,
                       error |-> r.message, opts |-> opts, scopes |-> scopesV,
                       events |-> <<>>, shown |-> <<>>]
        ELSE IF r.session = undefined
        THEN [st |-> st1, outcome |-> "return", canceled |-> FALSE, error |-> "",
              opts |-> opts, scopes |-> scopesV, events |-> <<>>, shown |-> <<>>]
        ELSE
        LET st2 == IF ~isEnterprise(p) THEN [st1 EXCEPT !.sessionId = r.session]
                   ELSE [st1 EXCEPT !.enterpriseSessionId = r.session]
        IN  IF env.hub = BadCredentials /\ ~Truthy(opts.forceNewSession)
            THEN [st |-> st2, outcome |-> "recurse", canceled |-> FALSE, error |-> "",
                  opts |-> [opts EXCEPT !.forceNewSession = "true", !.silent = "false"],
                  scopes |-> scopesV, events |-> <<>>, shown |-> <<>>]
            ELSE [st |-> setHub(st2, p,
                                IF env.hub = "ok" THEN r.session ELSE undefined,
                                r.scopes, r.isNew),
                  outcome |-> "return", canceled |-> FALSE, error |-> "",
                  opts |-> opts, scopes |-> scopesV,
                  events |-> IF r.isNew THEN <<"auth.session">> ELSE <<>>,
                  shown |-> IF env.hub = "ok" THEN <<>>
                            ELSE <<"Unable to sign in with the provided credentials">>]

\* The hubs, session ids and scopes of both providers.
Credentials(st) == [githubAPI |-> st.githubAPI, sessionId |-> st.sessionId,
                    githubEnterpriseAPI |-> st.githubEnterpriseAPI,
                    enterpriseSessionId |-> st.enterpriseSessionId,
                    scopes |-> st.scopes, scopesEnterprise |-> st.scopesEnterprise]

NoResult == [threw |-> FALSE, error |-> "", canceled |-> FALSE, value |-> undefined]

NoInit == [ran |-> FALSE, force |-> FALSE, error |-> "", outcome |-> "",
           canceled |-> FALSE]

SetStore(st) ==
    /\ githubAPI' = st.githubAPI
    /\ sessionId' = st.sessionId
    /\ githubEnterpriseAPI' = st.githubEnterpriseAPI
    /\ enterpriseSessionId' = st.enterpriseSessionId
    /\ isInitialized' = st.isInitialized
    /\ scopes' = st.scopes
    /\ scopesEnterprise' = st.scopesEnterprise
    /\ isSamling' = st.isSamling

\* What every step that runs initialize does with its outcome r; st is the store the
\* step leaves (r.st, or r.st changed by the caller in the same step).
RanInitialize(p, r, st) ==
    /\ SetStore(st)
    /\ telemetry' = telemetry \o r.events
    /\ shown' = shown \o r.shown
    /\ lastInit' = [ran |-> TRUE, force |-> Truthy(options.forceNewSession),
                    error |-> r.error, outcome |-> r.outcome, canceled |-> r.canceled]

\* The options create is called with.
CreateOptions == {NoOptions,
                  [NoOptions EXCEPT !.createIfNone = "true"],
                  [NoOptions EXCEPT !.forceNewSession = "true"],
                  [NoOptions EXCEPT !.silent = "true"]}

\* The scopes argument doCreate passes to initialize.
doCreateScopes(additionalScopes) ==
    IF additionalScopes THEN SCOPES_WITH_ADDITIONAL ELSE NoScopes

\* doCreate up to its first await: st is the store its caller leaves.
doCreate(name, st, opts, additionalScopes) ==
    /\ pc = "idle"
    /\ SetStore(st)
    /\ op' = name
    /\ options' = opts
    /\ requireScopes' = additionalScopes
    /\ initScopes' = doCreateScopes(additionalScopes)
    /\ enterprise' = undefined
    /\ authProviderId' = IF hasEnterpriseUri(enterpriseUri) THEN githubEnterprise ELSE github
    /\ pc' = IF hasEnterpriseUri(enterpriseUri) THEN "doCreate.enterprise" ELSE "doCreate.github"
    /\ telemetry' = <<>>
    /\ shown' = <<>>
    /\ result' = NoResult
    /\ lastInit' = NoInit
    /\ UNCHANGED <<promptForSignIn, enterpriseUri, octokit, isCanceled, answer, tries>>

create ==
    \E opts \in CreateOptions, additionalScopes \in BOOLEAN :
        doCreate("create", Store, opts, additionalScopes)

\* The options recreate passes to doCreate.
recreateOptions(reason) ==
    [NoOptions EXCEPT !.forceNewSession = IF reason # undefined THEN "detail" ELSE "true"]

recreate ==
    \E reason \in {undefined, "reason"} :
        doCreate("recreate", Store, recreateOptions(reason), FALSE)

reset ==
    doCreate("reset",
             [Store EXCEPT !.githubAPI = undefined, !.githubEnterpriseAPI = undefined],
             NoOptions, FALSE)

showSamlMessageAndAuth ==
    doCreate("showSamlMessageAndAuth", [Store EXCEPT !.isSamling = TRUE],
             recreateOptions("reason"), FALSE)

\* The options doCreate passes to the initialize of github.com.
githubOptions(opts, enterpriseCanceled) ==
    IF ~enterpriseCanceled THEN [opts EXCEPT !.silent = "true"] ELSE opts

\* doCreate: await initializeEnterprise().
doCreateEnterprise ==
    /\ pc = "doCreate.enterprise"
    /\ \E env \in SessionEnv(options, requireScopes) :
        LET r == initialize(Store, githubEnterprise, options, initScopes,
                            requireScopes, enterpriseUri, env)
        IN  /\ RanInitialize(githubEnterprise, r, r.st)
            /\ CASE r.outcome = "recurse" ->
                      /\ options' = r.opts
                      /\ initScopes' = r.scopes
                      /\ UNCHANGED <<pc, enterprise, authProviderId, result>>
                 [] r.outcome = "throw" ->
                      /\ pc' = "idle"
                      /\ result' = [NoResult EXCEPT !.threw = TRUE, !.error = r.error]
                      /\ options' = NoOptions
                      /\ initScopes' = NoScopes
                      /\ UNCHANGED <<enterprise, authProviderId>>
                 [] r.outcome = "return" ->
                      /\ enterprise' = IF r.canceled THEN "canceled" ELSE "not canceled"
                      /\ options' = githubOptions(r.opts, r.canceled)
                      /\ initScopes' = doCreateScopes(requireScopes)
                      /\ authProviderId' = github
                      /\ pc' = "doCreate.github"
                      /\ UNCHANGED result
    /\ requireScopes' = IF pc' = "idle" THEN FALSE ELSE requireScopes
    /\ UNCHANGED <<promptForSignIn, enterpriseUri, op, octokit, isCanceled, answer, tries>>

\* What doCreate returns.
doCreateResult(githubCanceled, enterpriseResult) ==
    [NoResult EXCEPT !.canceled = githubCanceled \/ enterpriseResult = "canceled"]

\* doCreate: await this.initialize(AuthProvider.github, ...), and the return;
\* showSamlMessageAndAuth clears _isSamling once recreate returned.
doCreateGithub ==
    /\ pc = "doCreate.github"
    /\ \E env \in SessionEnv(options, requireScopes) :
        LET r == initialize(Store, github, options, initScopes,
                            requireScopes, enterpriseUri, env)
        IN  CASE r.outcome = "recurse" ->
                   /\ RanInitialize(github, r, r.st)
                   /\ options' = r.opts
                   /\ initScopes' = r.scopes
                   /\ UNCHANGED <<pc, result>>
              [] r.outcome = "throw" ->
                   /\ RanInitialize(github, r, r.st)
                   /\ pc' = "idle"
                   /\ result' = [NoResult EXCEPT !.threw = TRUE, !.error = r.error]
                   /\ options' = NoOptions
                   /\ initScopes' = NoScopes
              [] r.outcome = "return" ->
                   /\ RanInitialize(github, r,
                                    IF op = "showSamlMessageAndAuth"
                                    THEN [r.st EXCEPT !.isSamling = FALSE] ELSE r.st)
                   /\ pc' = "idle"
                   /\ result' = doCreateResult(r.canceled, enterprise)
                   /\ options' = NoOptions
                   /\ initScopes' = NoScopes
    /\ requireScopes' = IF pc' = "idle" THEN FALSE ELSE requireScopes
    /\ enterprise' = IF pc' = "idle" THEN undefined ELSE enterprise
    /\ UNCHANGED <<promptForSignIn, enterpriseUri, op, authProviderId, octokit,
                   isCanceled, answer, tries>>

\* login up to its loop: 'auth.start' is sent and the locals are set.
loginStart(name, p) ==
    /\ op' = name
    /\ authProviderId' = p
    /\ telemetry' = <<"auth.start">>
    /\ options' = [NoOptions EXCEPT !.createIfNone = "true"]
    /\ initScopes' = NoScopes
    /\ requireScopes' = FALSE
    /\ octokit' = undefined
    /\ isCanceled' = FALSE
    /\ answer' = "unasked"
    /\ tries' = 0
    /\ result' = NoResult
    /\ lastInit' = NoInit
    /\ pc' = "login.initialize"

login ==
    /\ pc = "idle"
    /\ \E p \in AuthProvider : loginStart("login", p)
    /\ shown' = <<>>
    /\ SetStore(Store)
    /\ UNCHANGED <<promptForSignIn, enterpriseUri, enterprise>>

\* Whether the retry loop of login is left without asking the user.
loginLoopDone(hub, canceled) == hub # undefined \/ canceled

\* login: one pass of the try/catch of the loop and the reading of the hub.
loginInitialize ==
    /\ pc = "login.initialize"
    /\ \E env \in SessionEnv(options, requireScopes) :
        LET r == initialize(Store, authProviderId, options, initScopes,
                            requireScopes, enterpriseUri, env)
        IN  /\ RanInitialize(authProviderId, r, r.st)
            /\ options' = r.opts
            /\ IF r.outcome = "recurse"
               THEN /\ initScopes' = r.scopes
                    /\ UNCHANGED <<pc, octokit, isCanceled, tries>>
               ELSE /\ initScopes' = NoScopes
                    /\ isCanceled' = (isCanceled \/ (r.outcome = "throw" /\ r.error = Cancelled))
                    /\ octokit' = getHub(r.st, authProviderId)
                    /\ tries' = tries + 1
                    /\ pc' = IF loginLoopDone(octokit', isCanceled')
                             THEN "login.done" ELSE "login.prompt"
    /\ UNCHANGED <<promptForSignIn, enterpriseUri, op, authProviderId, requireScopes,
                   enterprise, answer, result>>

\* The options of the next pass after the user asked to try again.
retryOptions(opts) == [opts EXCEPT !.forceNewSession = "true", !.createIfNone = undefined]

\* login: the error prompt and its answer.
loginPrompt ==
    /\ pc = "login.prompt"
    /\ \E a \in {TRY_AGAIN, CANCEL, undefined} :
        /\ a = TRY_AGAIN => tries < MaxTries
        /\ answer' = a
        /\ IF a = TRY_AGAIN
           THEN /\ options' = retryOptions(options)
                /\ pc' = "login.initialize"
           ELSE /\ pc' = "login.done"
                /\ UNCHANGED options
    /\ shown' = Append(shown, "Error signing in to GitHub")
    /\ lastInit' = NoInit
    /\ SetStore(Store)
    /\ UNCHANGED <<promptForSignIn, enterpriseUri, op, authProviderId, initScopes,
                   requireScopes, enterprise, octokit, isCanceled, tries, telemetry, result>>

\* A login that reports success whatever the hub.
alwaysSuccess(hub) == "auth.success"

\* The event login sends after the loop.
loginEvent(hub) == IF hub # undefined THEN "auth.success" ELSE "auth.fail"

\* login: after the loop.
loginDone ==
    /\ pc = "login.done"
    /\ telemetry' = Append(telemetry, loginEvent(octokit))
    /\ result' = [NoResult EXCEPT !.value = octokit]
    /\ pc' = "idle"
    /\ lastInit' = NoInit
    /\ SetStore(Store)
    /\ options' = NoOptions
    /\ octokit' = undefined
    /\ isCanceled' = FALSE
    /\ answer' = "unasked"
    /\ tries' = 0
    /\ UNCHANGED <<promptForSignIn, enterpriseUri, op, authProviderId, initScopes,
                   requireScopes, enterprise, shown>>

\* A showSignInNotification that forgets the stored answer.
neverRemembers(flag) == FALSE

\* Whether showSignInNotification returns at once.
dontAsk(flag) == flag = "false"

\* showSignInNotification up to the await of the notification.
showSignInNotification ==
    /\ pc = "idle"
    /\ \E p \in AuthProvider : authProviderId' = p
    /\ op' = "showSignInNotification"
    /\ telemetry' = <<>>
    /\ result' = NoResult
    /\ IF dontAsk(promptForSignIn)
       THEN /\ shown' = <<>>
            /\ pc' = "idle"
       ELSE /\ shown' = <<"you must sign in to GitHub">>
            /\ pc' = "showSignInNotification.asked"
    /\ lastInit' = NoInit
    /\ SetStore(Store)
    /\ UNCHANGED <<promptForSignIn, enterpriseUri, options, initScopes, requireScopes,
                   enterprise, octokit, isCanceled, answer, tries>>

\* showSignInNotification once the notification was answered or dismissed.
signInAnswered ==
    /\ pc = "showSignInNotification.asked"
    /\ \E r \in {SIGNIN_COMMAND, IGNORE_COMMAND, undefined} :
        IF r = SIGNIN_COMMAND
        THEN /\ loginStart(op, authProviderId)
             /\ UNCHANGED <<promptForSignIn, enterprise>>
        ELSE /\ promptForSignIn' = "false"
             /\ telemetry' = Append(telemetry, "auth.cancel")
             /\ result' = NoResult
             /\ pc' = "idle"
             /\ lastInit' = NoInit
             /\ UNCHANGED <<op, authProviderId, options, initScopes, requireScopes,
                            enterprise, octokit, isCanceled, answer, tries>>
    /\ SetStore(Store)
    /\ UNCHANGED <<enterpriseUri, shown>>

CredStart ==
    /\ githubAPI = undefined
    /\ sessionId = undefined
    /\ githubEnterpriseAPI = undefined
    /\ enterpriseSessionId = undefined
    /\ isInitialized = FALSE
    /\ scopes = SCOPES_OLD
    /\ scopesEnterprise = SCOPES_OLD
    /\ isSamling = FALSE
    /\ promptForSignIn = undefined
    /\ pc = "idle"
    /\ op = "none"
    /\ authProviderId = github
    /\ options = NoOptions
    /\ initScopes = NoScopes
    /\ requireScopes = FALSE
    /\ enterprise = undefined
    /\ octokit = undefined
    /\ isCanceled = FALSE
    /\ answer = "unasked"
    /\ tries = 0
    /\ telemetry = <<>>
    /\ shown = <<>>
    /\ result = NoResult
    /\ lastInit = NoInit

CredIdle == CredStart /\ enterpriseUri = FALSE

CredInit == CredStart /\ enterpriseUri \in BOOLEAN

(***************************************************************************)
(*           CreatePullRequestViewProvider: the 'pr.create' handler        *)
(***************************************************************************)

VARIABLES
    pushBranch,            \* the githubPullRequests.pushBranch setting
    previousCreateMethod,  \* workspaceState PREVIOUS_CREATE_METHOD
    creatingContext,       \* the value of the CREATING context key
    createIn,              \* what the last 'pr.create' request met (see CreateEnv)
    createOut              \* what the handler did for that request

createVars == <<pushBranch, previousCreateMethod, creatingContext, createIn, createOut>>

apply == "Commit"
deleteChanges == "Delete my changes"
publish == "Publish Branch"
alwaysPublish == "Always Publish Branch"
UnstableStatus == "GraphQL error: [\"Pull request Pull request is in unstable status\"]"

\* What one 'pr.create' request meets:
\*   changes:       what model.filesHaveChanges() resolves to
\*   dialog:        the answer to 'You have made changes to the files ...'
\*   commitMessage: what the input box returns
\*   applied:       what model.applyChanges(commitMessage) resolves to
\*   upstream:      "found" when the compare branch has an upstream and findRepo finds
\*                  its repository, undefined when not, "throws" when getBranch throws
\*   publishAnswer: the answer to 'There is no remote branch ...'
\*   pushResult:    what pushUpstream returns: the remote with its repository, the
\*                  remote without one, or undefined
\*   createdPR:     what createPullRequest returns, or "throws"
\*   post:          postCreate: "ok", or the error it rejects with
\*   retry:         the second postCreate after UnstableStatus
AllCreateEnv ==
    [changes : BOOLEAN, dialog : {apply, deleteChanges, undefined},
     commitMessage : {"message", "", undefined}, applied : BOOLEAN,
     upstream : {"found", undefined, "throws"},
     publishAnswer : {publish, alwaysPublish, undefined},
     pushResult : {"remote and repo", "remote", undefined},
     createdPR : {"pr", undefined, "throws"},
     post : {"ok", UnstableStatus, OtherError},
     retry : {"ok", OtherError}]

NoCreateEnv == [changes |-> FALSE, dialog |-> undefined, commitMessage |-> undefined,
                applied |-> TRUE, upstream |-> "found", publishAnswer |-> undefined,
                pushResult |-> undefined, createdPR |-> "pr", post |-> "ok", retry |-> "ok"]

NoCreateOut == [command |-> "none", checked |-> TRUE, applyChanges |-> <<>>, replies |-> <<>>, saved |-> FALSE,
                creating |-> <<>>, createPullRequest |-> 0, postCreate |-> 0,
                onDone |-> <<>>, errorMessages |-> <<>>, rejected |-> FALSE,
                pushBranch |-> undefined]

\* The calls of _replyMessage and _throwError: one message back to the request each.
replyMessage(out, body) == [out EXCEPT !.replies = Append(@, body)]

throwError(out, error) == [out EXCEPT !.replies = Append(@, "error")]

\* A checkForChanges that always lets the pull request be created.
noCheckForChanges(env) == [ret |-> TRUE, applyChanges |-> <<>>]

\* checkForChanges: what it returns and the applyChanges calls it made.
checkForChanges(env) ==
    IF env.changes
    THEN IF env.dialog = apply
         THEN IF Truthy(env.commitMessage)
              THEN [ret |-> env.applied, applyChanges |-> <<env.commitMessage>>]
              ELSE [ret |-> TRUE, applyChanges |-> <<>>]
         ELSE IF env.dialog # deleteChanges
         THEN [ret |-> FALSE, applyChanges |-> <<>>]
         ELSE [ret |-> TRUE, applyChanges |-> <<>>]
    ELSE [ret |-> TRUE, applyChanges |-> <<>>]

\* create, the finally block: createdPR is the pull request or undefined.
createFinally(out, createdPR) ==
    LET o == [out EXCEPT !.creating = Append(@, FALSE)]
    IN  IF createdPR # undefined
        THEN [o EXCEPT !.onDone = Append(@, createdPR)]
        ELSE replyMessage(o, "{}")

\* create, the catch block once a pull request exists: e is postCreate's error and
\* retry the outcome of the second postCreate.
createCatchAfterCreated(out, e, retry) ==
    IF e = UnstableStatus
    THEN LET o == [out EXCEPT !.postCreate = @ + 1]
         IN  IF retry = "ok"
             THEN [o EXCEPT !.errorMessages = Append(@, e)]
             ELSE [o EXCEPT !.rejected = TRUE]
    ELSE [out EXCEPT !.errorMessages = Append(@, e)]

\* create from the createPullRequest call to the end of the try/catch.
createPullRequestAndAfter(out, env) ==
    LET o == [out EXCEPT !.createPullRequest = @ + 1]
    IN  IF env.createdPR = "throws"
        THEN throwError(o, "createPullRequest failed")
        ELSE IF env.createdPR = undefined
        THEN throwError(o, "There must be a difference in commits to create a pull request.")
        ELSE LET o1 == [o EXCEPT !.postCreate = @ + 1]
             IN  IF env.post = "ok" THEN o1
                 ELSE createCatchAfterCreated(o1, env.post, env.retry)

\* create, the body of the progress task.
createTask(out, env, setting) ==
    LET o0 == [out EXCEPT !.creating = Append(@, TRUE)]
    IN  IF env.upstream = "throws"
        THEN createFinally(throwError(o0, "getBranch failed"), undefined)
        ELSE
        LET found == env.upstream = "found"
            messageResult == IF setting = "always" THEN publish ELSE env.publishAnswer
            o1 == IF ~found /\ messageResult = alwaysPublish
                  THEN [o0 EXCEPT !.pushBranch = "always"] ELSE o0
            pushing == ~found /\ messageResult \in {alwaysPublish, publish}
            o2 == IF pushing /\ env.pushResult = undefined
                  THEN throwError(o1, "The current repository does not have a push remote")
                  ELSE o1
            existingCompareUpstream ==
                found \/ (pushing /\ env.pushResult # undefined)
            headRepo == found \/ (pushing /\ env.pushResult = "remote and repo")
        IN  IF ~existingCompareUpstream
            THEN createFinally(throwError(o2, "No remote branch"), undefined)
            ELSE IF ~headRepo
            THEN createFinally(throwError(o2, "Unable to find GitHub repository"), undefined)
            ELSE createFinally(createPullRequestAndAfter(o2, env),
                               IF env.createdPR = "pr" THEN "pr" ELSE undefined)

\* The whole handler of 'pr.create'.
createHandler(env, setting) ==
    LET check == checkForChanges(env)
        o == [NoCreateOut EXCEPT !.command = "pr.create", !.checked = check.ret,
                                 !.applyChanges = check.applyChanges,
                                 !.pushBranch = setting]
    IN  IF ~check.ret
        THEN replyMessage(o, "{}")
        ELSE createTask([o EXCEPT !.saved = TRUE], env, setting)

\* The answers of env that the handler asks for under the pushBranch setting.
createAsked(env, setting) ==
    LET ret == checkForChanges(env).ret
        found == env.upstream = "found"
        messageResult == IF setting = "always" THEN publish ELSE env.publishAnswer
        pushing == ret /\ env.upstream = undefined /\ messageResult \in {alwaysPublish, publish}
        creates == ret /\ (found \/ (pushing /\ env.pushResult = "remote and repo"))
    IN  {"changes"}
        \cup (IF env.changes THEN {"dialog"} ELSE {})
        \cup (IF env.changes /\ env.dialog = apply THEN {"commitMessage"} ELSE {})
        \cup (IF env.changes /\ env.dialog = apply /\ Truthy(env.commitMessage)
              THEN {"applied"} ELSE {})
        \cup (IF ret THEN {"upstream"} ELSE {})
        \cup (IF ret /\ env.upstream = undefined /\ setting # "always"
              THEN {"publishAnswer"} ELSE {})
        \cup (IF pushing THEN {"pushResult"} ELSE {})
        \cup (IF creates THEN {"createdPR"} ELSE {})
        \cup (IF creates /\ env.createdPR = "pr" THEN {"post"} ELSE {})
        \cup (IF creates /\ env.createdPR = "pr" /\ env.post = UnstableStatus
              THEN {"retry"} ELSE {})

\* Whether env differs from NoCreateEnv only in answers the handler asks for.
createCanonical(env, setting) ==
    LET asked == createAsked(env, setting)
    IN  \A f \in DOMAIN NoCreateEnv \ asked : env[f] = NoCreateEnv[f]

\* One environment for each way the handler can run: the answers to checkForChanges,
\* to the upstream lookup and publishing, and to createPullRequest and postCreate are
\* narrowed apart and then together.
CreateEnv(setting) ==
    LET check == {c \in [changes : BOOLEAN, dialog : {apply, deleteChanges, undefined},
                         commitMessage : {"message", "", undefined}, applied : BOOLEAN] :
                     createCanonical(c @@ NoCreateEnv, setting)}
        push == {u \in [upstream : {"found", undefined, "throws"},
                        publishAnswer : {publish, alwaysPublish, undefined},
                        pushResult : {"remote and repo", "remote", undefined}] :
                     createCanonical(u @@ NoCreateEnv, setting)}
        made == {m \in [createdPR : {"pr", undefined, "throws"},
                        post : {"ok", UnstableStatus, OtherError},
                        retry : {"ok", OtherError}] :
                     createCanonical(m @@ NoCreateEnv, setting)}
    IN  {env \in {c @@ u @@ m : c \in check, u \in push, m \in made} :
            createCanonical(env, setting)}

\* The 'pr.create' message.
prCreate ==
    \E env \in CreateEnv(pushBranch) :
        LET out == createHandler(env, pushBranch)
        IN  /\ createIn' = env
            /\ createOut' = out
            /\ pushBranch' = out.pushBranch
            /\ previousCreateMethod' =
                   IF out.saved THEN "createMethod" ELSE previousCreateMethod
            /\ creatingContext' = IF out.creating = <<>> THEN creatingContext
                                  ELSE out.creating[Len(out.creating)]

\* The 'pr.cancelCreate' message.
cancel ==
    /\ createIn' = NoCreateEnv
    /\ createOut' = [NoCreateOut EXCEPT !.command = "pr.cancelCreate",
                                        !.onDone = <<undefined>>,
                                        !.replies = <<undefined>>,
                                        !.pushBranch = pushBranch]
    /\ UNCHANGED <<pushBranch, previousCreateMethod, creatingContext>>

\* The user edits the pushBranch setting.
changePushBranch ==
    /\ pushBranch' \in {undefined, "always"}
    /\ pushBranch' # pushBranch
    /\ UNCHANGED <<previousCreateMethod, creatingContext, createIn, createOut>>

CreateIdle ==
    /\ pushBranch = undefined
    /\ previousCreateMethod = undefined
    /\ creatingContext = FALSE
    /\ createIn = NoCreateEnv
    /\ createOut = NoCreateOut

CreateInit == CreateIdle

(***************************************************************************)
(*   BaseCreatePullRequestViewProvider: resolveWebviewView, initializeParams *)
(***************************************************************************)

VARIABLES
    firstLoad,                       \* _firstLoad
    view,                            \* _view: undefined, or "visible" / "hidden"
    initializeWhenVisibleDisposable, \* undefined, or the view its listener is on:
                                     \* "current", or "disposed" (an earlier view)
    alreadyInitializing,             \* _alreadyInitializing: undefined, "pending"
                                     \* or "rejected"
    posted                           \* the commands posted to the webview, in order

resolveVars == <<firstLoad, view, initializeWhenVisibleDisposable, alreadyInitializing,
                 posted>>

\* The messages to the webview that the model follows.
MaxPosted == 4

ResolveState == [firstLoad |-> firstLoad, view |-> view,
                 initializeWhenVisibleDisposable |-> initializeWhenVisibleDisposable,
                 alreadyInitializing |-> alreadyInitializing, posted |-> posted]

SetResolveState(st) ==
    /\ firstLoad' = st.firstLoad
    /\ view' = st.view
    /\ initializeWhenVisibleDisposable' = st.initializeWhenVisibleDisposable
    /\ alreadyInitializing' = st.alreadyInitializing
    /\ posted' = st.posted

postMessage(st, command) == [st EXCEPT !.posted = Append(@, command)]

\* initializeParamsPromise: starts doInitializeParams unless one is under way.
initializeParamsPromise(st) ==
    IF st.alreadyInitializing = undefined
    THEN [st EXCEPT !.alreadyInitializing = "pending"]
    ELSE st

\* Whether initializeParams waits for the view to become visible.
waitsForVisible(st) ==
    st.view = "hidden" /\ st.initializeWhenVisibleDisposable = undefined

\* initializeParams up to the await of initializeParamsPromise.
initializeParams(st, clear) ==
    IF waitsForVisible(st)
    THEN [st EXCEPT !.initializeWhenVisibleDisposable = "current"]
    ELSE initializeParamsPromise(IF clear THEN postMessage(st, "reset") ELSE st)

\* The reset argument resolveWebviewView passes to initializeParams.
resetOnResolve(first) == first

\* super.resolveWebviewView of WebviewViewBase: the new view becomes _view; a
\* listener of initializeParams still registered is on the view it replaces.
superResolveWebviewView(st, visible) ==
    [st EXCEPT !.view = IF visible THEN "visible" ELSE "hidden",
               !.initializeWhenVisibleDisposable =
                   IF @ = undefined THEN undefined ELSE "disposed"]

\* resolveWebviewView: the editor hands over a new view, visible or not.
resolveWebviewView ==
    /\ Len(posted) < MaxPosted
    /\ \E visible \in BOOLEAN :
        LET st == [superResolveWebviewView(ResolveState, visible) EXCEPT
                      !.firstLoad = FALSE]
        IN  SetResolveState(initializeParams(st, resetOnResolve(firstLoad)))

\* The view is shown or hidden; the listener of initializeParams, if it is on this
\* view, disposes itself and calls initializeParams().
onDidChangeVisibility ==
    /\ view # undefined
    /\ LET st == [ResolveState EXCEPT !.view = IF @ = "visible" THEN "hidden" ELSE "visible"]
       IN  IF initializeWhenVisibleDisposable = "current"
           THEN SetResolveState(
                    initializeParams([st EXCEPT !.initializeWhenVisibleDisposable = undefined],
                                     FALSE))
           ELSE SetResolveState(st)

\* doInitializeParams resolves: 'pr.initialize' is posted and the then callback of
\* initializeParamsPromise clears _alreadyInitializing.
doInitializeParams ==
    /\ alreadyInitializing = "pending"
    /\ Len(posted) < MaxPosted
    /\ SetResolveState([postMessage(ResolveState, "pr.initialize")
                           EXCEPT !.alreadyInitializing = undefined])

\* doInitializeParams rejects (getCreateParams threw): the then callback does not run.
doInitializeParamsRejected ==
    /\ alreadyInitializing = "pending"
    /\ SetResolveState([ResolveState EXCEPT !.alreadyInitializing = "rejected"])

\* The 'pr.requestInitialize' message of the webview.
requestInitialize ==
    /\ view # undefined
    /\ SetResolveState(initializeParamsPromise(ResolveState))

ResolveIdle ==
    /\ firstLoad = TRUE
    /\ view = undefined
    /\ initializeWhenVisibleDisposable = undefined
    /\ alreadyInitializing = undefined
    /\ posted = <<>>

ResolveInit == ResolveIdle

(***************************************************************************)
(*        CreatePullRequestViewProvider.getTitleAndDescription             *)
(***************************************************************************)

VARIABLES
    titleIn,    \* the arguments and what the calls of the function answer
    titleOut    \* whether the function was called and the title it returned

titleVars == <<titleIn, titleOut>>

\* The commits of the compare result that the model follows.
MaxCommits == 3

\* Strings are sequences of characters.
BranchNames == {<<"m", "a", "i", "n">>, <<"d", "e", "v">>, <<"F", "i", "x">>}

CommitTitles == {<<"a", "d", "d">>}

toUpperCase(c) ==
    CASE c = "m" -> "M" [] c = "a" -> "A" [] c = "i" -> "I" [] c = "n" -> "N"
      [] c = "d" -> "D" [] c = "e" -> "E" [] c = "v" -> "V" [] c = "x" -> "X"
      [] OTHER -> c

\* `${name.charAt(0).toUpperCase()}${name.slice(1)}`
capitalized(name) ==
    IF name = <<>> THEN <<>> ELSE <<toUpperCase(Head(name))>> \o Tail(name)

\* The commits whose parents are fewer than two; a commit is its number of parents.
nonMergeCommits(commits) == SelectSeq(commits, LAMBDA parents : parents < 2)

\* The inputs:
\*   descrptionSource: the pullRequestDescription setting
\*   name:             compareBranch.name, <<>> when it has none
\*   base:             _pullRequestDefaults.base
\*   defaultBranch:    what origin.getDefaultBranch() resolves to
\*   upstream:         whether getTotalGitHubCommits gets to compareCommits
\*   commits:          the commits of the compare result, each its number of parents
\*   compareFails:     whether compareCommits rejects
\*   lastCommit:       the title of the tip commit, <<>> when there is none in time
TitleInputs ==
    [descrptionSource : {"commit", "template", "none", "Copilot"},
     name : BranchNames \cup {<<>>}, base : {<<"m", "a", "i", "n">>},
     defaultBranch : {<<"m", "a", "i", "n">>, <<"d", "e", "v">>},
     upstream : BOOLEAN,
     commits : UNION {[1..n -> {1, 2}] : n \in 0..MaxCommits},
     compareFails : BOOLEAN,
     lastCommit : CommitTitles \cup {<<>>}]

\* useBranchName before the commits are looked at.
useBranchNameAtFirst(in) == in.base = in.name

\* useBranchName once the commits were counted; total is the non-merge commits or
\* undefined (-1) when there is no compare result.
useBranchName(in, total) ==
    IF total = -1 THEN FALSE
    ELSE IF total > 1 THEN in.defaultBranch # in.name
    ELSE useBranchNameAtFirst(in)

\* The title getTitleAndDescription returns.
getTitle(in) ==
    IF in.descrptionSource = "none" THEN <<>>
    ELSE IF in.upstream /\ in.compareFails THEN <<>>
    ELSE LET total == IF in.upstream THEN Len(nonMergeCommits(in.commits)) ELSE -1
         IN  IF useBranchName(in, total) /\ in.name # <<>>
             THEN capitalized(in.name)
             ELSE IF in.name # <<>> /\ in.lastCommit # <<>>
             THEN in.lastCommit
             ELSE <<>>

getTitleAndDescription ==
    /\ ~titleOut.called
    /\ titleOut' = [called |-> TRUE, title |-> getTitle(titleIn)]
    /\ UNCHANGED titleIn

TitleIdle ==
    /\ titleIn = [descrptionSource |-> "none", name |-> <<>>, base |-> <<"m", "a", "i", "n">>,
                  defaultBranch |-> <<"m", "a", "i", "n">>, upstream |-> FALSE,
                  commits |-> <<>>, compareFails |-> FALSE, lastCommit |-> <<>>]
    /\ titleOut = [called |-> FALSE, title |-> <<>>]

TitleInit ==
    /\ titleIn \in TitleInputs
    /\ titleOut = [called |-> FALSE, title |-> <<>>]

(***************************************************************************)
(*      PullRequestViewProvider: the 'pr.merge' and 'pr.update-branch'     *)
(*      handlers                                                           *)
(***************************************************************************)

VARIABLES
    workingTreeChanges,  \* repository.state.workingTreeChanges.length
    indexChanges,        \* repository.state.indexChanges.length
    merging,             \* whether a mergePullRequest promise of 'pr.merge' is pending
    viewIn,              \* what the last request met
    viewOut              \* what its handler did

viewVars == <<workingTreeChanges, indexChanges, merging, viewIn, viewOut>>

\* The changed files of the repository that the model follows.
MaxChanges == 2

\* let attemptsRemaining = 5
AttemptsRemaining == 5

yes == "Yes"
Open == "Open"
Merged == "Merged"
Unknown == "Unknown"

\* What a request meets:
\*   email:         whether getPreferredEmail resolves ("ok") or rejects
\*   confirmation:  the answer to 'Merge this pull request?'
\*   mergeSucceeded: what tryMergeBaseIntoHead resolves to
\*   unknowns:      how many times getMergeability answers Unknown before another answer
\*   workingTreeChanges, indexChanges: the repository state the request met
NoViewIn == [email |-> "ok", confirmation |-> undefined, result |-> undefined,
             mergeSucceeded |-> TRUE, unknowns |-> 0,
             workingTreeChanges |-> 0, indexChanges |-> 0]

NoViewOut == [command |-> "none", asked |-> 0, replies |-> <<>>, mergePullRequest |-> 0,
              tryMergeBaseIntoHead |-> 0, getMergeability |-> 0, errorMessages |-> <<>>]

\* A mergePullRequest that merges whatever the answer.
anyAnswer(confirmation) == TRUE

\* Whether mergePullRequest goes on to merge.
confirmed(confirmation) == confirmation = yes

\* mergePullRequest up to the call of folderRepositoryManager.mergePullRequest.
mergePullRequest ==
    /\ ~merging
    /\ \E email \in {"ok", "throws"}, confirmation \in {yes, undefined} :
        /\ email = "throws" => confirmation = undefined
        /\ viewIn' = [NoViewIn EXCEPT !.email = email, !.confirmation = confirmation]
        /\ LET out == [NoViewOut EXCEPT !.command = "pr.merge"]
           IN  IF email = "throws"
               THEN /\ viewOut' = out
                    /\ merging' = FALSE
               ELSE IF ~confirmed(confirmation)
               THEN /\ viewOut' = [out EXCEPT !.asked = 1, !.replies = <<Open>>]
                    /\ merging' = FALSE
               ELSE /\ viewOut' = [out EXCEPT !.asked = 1, !.mergePullRequest = 1]
                    /\ merging' = TRUE
    /\ UNCHANGED <<workingTreeChanges, indexChanges>>

\* The state of the reply to a merge result.
mergeReplyState(merged) == IF merged THEN Merged ELSE Open

\* The then and catch callbacks of the merge promise.
mergeSettled ==
    /\ merging
    /\ merging' = FALSE
    /\ \E settled \in {"merged", "not merged", "throws"} :
        /\ viewIn' = [viewIn EXCEPT !.result = settled]
        /\ viewOut' =
             IF settled = "throws"
             THEN [viewOut EXCEPT !.errorMessages = Append(@, "Unable to merge pull request."),
                                  !.replies = Append(@, "error")]
             ELSE IF settled = "not merged"
             THEN [viewOut EXCEPT !.errorMessages = Append(@, "Merging PR failed"),
                                  !.replies = Append(@, mergeReplyState(FALSE))]
             ELSE [viewOut EXCEPT !.replies = Append(@, mergeReplyState(TRUE))]
    /\ UNCHANGED <<workingTreeChanges, indexChanges>>

\* An updateBranch that looks at the working tree only.
workingTreeOnly(workingTree, index) == workingTree > 0

\* Whether updateBranch refuses to update.
hasChanges(workingTree, index) == workingTree > 0 \/ index > 0

\* The polls of the do/while loop when the first unknowns answers are Unknown.
polls(unknowns) ==
    IF unknowns + 1 < AttemptsRemaining THEN unknowns + 1 ELSE AttemptsRemaining

\* updateBranch, the whole handler.
updateBranch ==
    /\ ~merging
    /\ \E mergeSucceeded \in BOOLEAN, unknowns \in 0..AttemptsRemaining :
        LET out == [NoViewOut EXCEPT !.command = "pr.update-branch"]
            met == [NoViewIn EXCEPT !.workingTreeChanges = workingTreeChanges,
                                    !.indexChanges = indexChanges]
        IN  IF hasChanges(workingTreeChanges, indexChanges)
            THEN /\ mergeSucceeded /\ unknowns = 0
                 /\ viewIn' = met
                 /\ viewOut' = [out EXCEPT
                       !.errorMessages = <<"The pull request branch cannot be updated">>,
                       !.replies = <<"{}">>]
            ELSE /\ viewIn' = [met EXCEPT !.mergeSucceeded = mergeSucceeded,
                                         !.unknowns = unknowns]
                 /\ viewOut' = [out EXCEPT
                       !.tryMergeBaseIntoHead = 1,
                       !.getMergeability = polls(unknowns),
                       !.replies = (IF mergeSucceeded THEN <<>> ELSE <<"{}">>)
                                   \o <<IF unknowns < AttemptsRemaining
                                        THEN "mergeable" ELSE Unknown>>]
    /\ UNCHANGED <<workingTreeChanges, indexChanges, merging>>

\* Files are edited, staged, committed or stashed.
repositoryChanged ==
    /\ ~merging
    /\ workingTreeChanges' \in 0..MaxChanges
    /\ indexChanges' \in 0..MaxChanges
    /\ <<workingTreeChanges', indexChanges'>> # <<workingTreeChanges, indexChanges>>
    /\ UNCHANGED <<merging, viewIn, viewOut>>

ViewIdle ==
    /\ workingTreeChanges = 0
    /\ indexChanges = 0
    /\ merging = FALSE
    /\ viewIn = NoViewIn
    /\ viewOut = NoViewOut

ViewInit == ViewIdle

(***************************************************************************)
(*      PullRequestViewProvider: the 'pr.checkout-default-branch' handler  *)
(***************************************************************************)

VARIABLES
    head,          \* repository.state.HEAD?.name: undefined, "" or a branch name
    checkoutPc,    \* where checkoutDefaultBranch is: "idle" or the call it awaits
    prBranch,      \* its local prBranch
    headBefore,    \* HEAD's name when folderRepositoryManager.checkoutDefaultBranch was called
    checkoutLog    \* what the last request did, in order

checkoutVars == <<head, checkoutPc, prBranch, headBefore, checkoutLog>>

\* What HEAD can be named.
HeadNames == {undefined, "", "pr-branch", "main"}

\* A checkoutDefaultBranch that cleans up whatever HEAD was.
alwaysCleanup(branch) == TRUE

\* Whether checkoutDefaultBranch goes on to cleanupAfterPullRequest.
needsCleanup(branch) == Truthy(branch)

\* The finally block: the reply, and the handler is over.
checkoutFinally(log) == Append(log, "reply")

\* The 'pr.checkout-default-branch' message: up to the await of
\* getPullRequestRepositoryDefaultBranch.
checkoutDefaultBranch ==
    /\ checkoutPc = "idle"
    /\ checkoutPc' = "getPullRequestRepositoryDefaultBranch"
    /\ checkoutLog' = <<"getPullRequestRepositoryDefaultBranch">>
    /\ prBranch' = undefined
    /\ headBefore' = undefined
    /\ UNCHANGED head

\* getPullRequestRepositoryDefaultBranch resolves or rejects.
defaultBranchSettled ==
    /\ checkoutPc = "getPullRequestRepositoryDefaultBranch"
    /\ \E resolved \in BOOLEAN :
        IF resolved
        THEN /\ prBranch' = head
             /\ headBefore' = head
             /\ checkoutLog' = Append(checkoutLog, "checkoutDefaultBranch")
             /\ checkoutPc' = "checkoutDefaultBranch"
        ELSE /\ checkoutLog' = checkoutFinally(checkoutLog)
             /\ checkoutPc' = "idle"
             /\ UNCHANGED <<prBranch, headBefore>>
    /\ UNCHANGED head

\* folderRepositoryManager.checkoutDefaultBranch resolves or rejects.
checkoutSettled ==
    /\ checkoutPc = "checkoutDefaultBranch"
    /\ \E resolved \in BOOLEAN :
        IF resolved
        THEN /\ head' = "main"
             /\ IF needsCleanup(prBranch)
                THEN /\ checkoutLog' = checkoutLog \o <<"checked out", "cleanupAfterPullRequest">>
                     /\ checkoutPc' = "cleanupAfterPullRequest"
                ELSE /\ checkoutLog' = checkoutFinally(Append(checkoutLog, "checked out"))
                     /\ checkoutPc' = "idle"
        ELSE /\ checkoutLog' = checkoutFinally(checkoutLog)
             /\ checkoutPc' = "idle"
             /\ UNCHANGED head
    /\ UNCHANGED <<prBranch, headBefore>>

\* cleanupAfterPullRequest resolves or rejects: the finally block runs either way.
cleanupSettled ==
    /\ checkoutPc = "cleanupAfterPullRequest"
    /\ \E resolved \in BOOLEAN :
        checkoutLog' = checkoutFinally(IF resolved THEN Append(checkoutLog, "cleaned up")
                                       ELSE checkoutLog)
    /\ checkoutPc' = "idle"
    /\ UNCHANGED <<head, prBranch, headBefore>>

\* The user or git moves HEAD.
headChanged ==
    /\ head' \in HeadNames
    /\ head' # head
    /\ UNCHANGED <<checkoutPc, prBranch, headBefore, checkoutLog>>

CheckoutIdle ==
    /\ head = "pr-branch"
    /\ checkoutPc = "idle"
    /\ prBranch = undefined
    /\ headBefore = undefined
    /\ checkoutLog = <<>>

CheckoutInit == CheckoutIdle

(***************************************************************************)
(*              init: the git.onDidPublish handler                         *)
(***************************************************************************)

VARIABLES
    branchPublish,       \* the githubPullRequests.branchPublish setting
    reviewManager,       \* the review manager of the event's repository: undefined,
                         \* "idle", or "creating" (isCreatingPullRequest)
    folderManager,       \* whether reposManager has a folder manager of the repository
    gitHubRepositories,  \* folderManager.gitHubRepositories.length
    publishPc,           \* where the handler is: "idle", or the await it is at
    publishIn,           \* the event and what the handler read
    publishOut           \* what the handler did for the event

publishVars == <<branchPublish, reviewManager, folderManager, gitHubRepositories,
                 publishPc, publishIn, publishOut>>

\* The GitHub repositories of a folder manager that the model follows.
MaxRepositories == 2

createPullRequestAnswer == "Create Pull Request..."
dontShowAgain == "Don't Show Again"

\* e.branch: none, empty, or a branch name.
PublishedBranches == {undefined, "", "main", "feature"}

NoPublishIn == [branch |-> undefined, branchPublish |-> undefined,
                reviewManager |-> undefined, folderManager |-> FALSE,
                gitHubRepositories |-> 0, base |-> undefined]

NoPublishOut == [handled |-> FALSE, getPullRequestDefaults |-> 0, shown |-> 0,
                 createPullRequest |-> <<>>]

\* A handler that asks whatever the setting says.
ignoresSetting(setting) == TRUE

\* Whether the setting lets the handler ask.
asks(setting) == setting = "ask"

\* The checks of the handler before it awaits getPullRequestDefaults.
passesChecks(branch, setting, manager, hasFolderManager, repositories) ==
    /\ Truthy(branch)
    /\ asks(setting)
    /\ manager # "creating"
    /\ hasFolderManager /\ repositories # 0

\* git.onDidPublish fires: the handler up to the await of getPullRequestDefaults.
onDidPublish ==
    /\ publishPc = "idle"
    /\ \E branch \in PublishedBranches :
        /\ publishIn' = [NoPublishIn EXCEPT
                            !.branch = branch, !.branchPublish = branchPublish,
                            !.reviewManager = reviewManager,
                            !.folderManager = folderManager,
                            !.gitHubRepositories = gitHubRepositories]
        /\ IF passesChecks(branch, branchPublish, reviewManager, folderManager,
                           gitHubRepositories)
           THEN /\ publishPc' = "getPullRequestDefaults"
                /\ publishOut' = [NoPublishOut EXCEPT !.handled = TRUE,
                                                      !.getPullRequestDefaults = 1]
           ELSE /\ publishPc' = "idle"
                /\ publishOut' = [NoPublishOut EXCEPT !.handled = TRUE]
    /\ UNCHANGED <<branchPublish, reviewManager, folderManager, gitHubRepositories>>

\* Whether the published branch is the default base branch.
isBase(base, branch) == base = branch

\* getPullRequestDefaults resolves with a base branch or rejects; the prompt is shown.
defaultsSettled ==
    /\ publishPc = "getPullRequestDefaults"
    /\ \E base \in {"main", "dev", "throws"} :
        /\ publishIn' = [publishIn EXCEPT !.base = base]
        /\ IF base = "throws" \/ isBase(base, publishIn.branch)
           THEN /\ publishPc' = "idle"
                /\ UNCHANGED publishOut
           ELSE /\ publishPc' = "prompt"
                /\ publishOut' = [publishOut EXCEPT !.shown = @ + 1]
    /\ UNCHANGED <<branchPublish, reviewManager, folderManager, gitHubRepositories>>

\* The prompt is answered or dismissed. The review manager read before the prompt may
\* have been undefined.
promptAnswered ==
    /\ publishPc = "prompt"
    /\ publishPc' = "idle"
    /\ \E answered \in {createPullRequestAnswer, dontShowAgain, undefined} :
        /\ publishOut' =
             IF answered = createPullRequestAnswer /\ publishIn.reviewManager # undefined
             THEN [publishOut EXCEPT !.createPullRequest = Append(@, publishIn.branch)]
             ELSE publishOut
        /\ branchPublish' = IF answered = dontShowAgain THEN "never" ELSE branchPublish
    /\ UNCHANGED <<reviewManager, folderManager, gitHubRepositories, publishIn>>

\* The user edits the branchPublish setting.
branchPublishChanged ==
    /\ branchPublish' \in {"ask", "never", undefined}
    /\ branchPublish' # branchPublish
    /\ UNCHANGED <<reviewManager, folderManager, gitHubRepositories, publishPc,
                   publishIn, publishOut>>

\* Review managers and folder managers come and go, a pull request creation starts
\* or ends, remotes are added or removed.
managersChanged ==
    /\ reviewManager' \in {undefined, "idle", "creating"}
    /\ folderManager' \in BOOLEAN
    /\ gitHubRepositories' \in 0..MaxRepositories
    /\ ~folderManager' => gitHubRepositories' = 0
    /\ <<reviewManager', folderManager', gitHubRepositories'>>
         # <<reviewManager, folderManager, gitHubRepositories>>
    /\ UNCHANGED <<branchPublish, publishPc, publishIn, publishOut>>

PublishIdle ==
    /\ branchPublish = "ask"
    /\ reviewManager = "idle"
    /\ folderManager = TRUE
    /\ gitHubRepositories = 1
    /\ publishPc = "idle"
    /\ publishIn = NoPublishIn
    /\ publishOut = NoPublishOut

PublishInit == PublishIdle

(***************************************************************************)
(*                          The specifications                             *)
(***************************************************************************)

vars == <<credVars, createVars, resolveVars, titleVars, viewVars, checkoutVars,
          publishVars>>

\* The credential store alone.
InitCred ==
    /\ CredInit
    /\ CreateIdle
    /\ ResolveIdle
    /\ TitleIdle
    /\ ViewIdle
    /\ CheckoutIdle
    /\ PublishIdle

restCred == <<createVars, resolveVars, titleVars, viewVars, checkoutVars,
             publishVars>>

NextCred ==
    \/ create /\ UNCHANGED restCred
    \/ recreate /\ UNCHANGED restCred
    \/ reset /\ UNCHANGED restCred
    \/ showSamlMessageAndAuth /\ UNCHANGED restCred
    \/ doCreateEnterprise /\ UNCHANGED restCred
    \/ doCreateGithub /\ UNCHANGED restCred
    \/ login /\ UNCHANGED restCred
    \/ loginInitialize /\ UNCHANGED restCred
    \/ loginPrompt /\ UNCHANGED restCred
    \/ loginDone /\ UNCHANGED restCred
    \/ showSignInNotification /\ UNCHANGED restCred
    \/ signInAnswered /\ UNCHANGED restCred

SpecCred == InitCred /\ [][NextCred]_vars

\* The 'pr.create' handler alone.
InitCreate ==
    /\ CredIdle
    /\ CreateInit
    /\ ResolveIdle
    /\ TitleIdle
    /\ ViewIdle
    /\ CheckoutIdle
    /\ PublishIdle

restCreate == <<credVars, resolveVars, titleVars, viewVars, checkoutVars,
             publishVars>>

NextCreate ==
    \/ prCreate /\ UNCHANGED restCreate
    \/ cancel /\ UNCHANGED restCreate
    \/ changePushBranch /\ UNCHANGED restCreate

SpecCreate == InitCreate /\ [][NextCreate]_vars

\* The create view's resolve and initialize alone.
InitResolve ==
    /\ CredIdle
    /\ CreateIdle
    /\ ResolveInit
    /\ TitleIdle
    /\ ViewIdle
    /\ CheckoutIdle
    /\ PublishIdle

restResolve == <<credVars, createVars, titleVars, viewVars, checkoutVars,
             publishVars>>

NextResolve ==
    \/ resolveWebviewView /\ UNCHANGED restResolve
    \/ onDidChangeVisibility /\ UNCHANGED restResolve
    \/ doInitializeParams /\ UNCHANGED restResolve
    \/ doInitializeParamsRejected /\ UNCHANGED restResolve
    \/ requestInitialize /\ UNCHANGED restResolve

SpecResolve == InitResolve /\ [][NextResolve]_vars

\* getTitleAndDescription on every input.
InitTitle ==
    /\ CredIdle
    /\ CreateIdle
    /\ ResolveIdle
    /\ TitleInit
    /\ ViewIdle
    /\ CheckoutIdle
    /\ PublishIdle

restTitle == <<credVars, createVars, resolveVars, viewVars, checkoutVars,
             publishVars>>

NextTitle ==
    \/ getTitleAndDescription /\ UNCHANGED restTitle

SpecTitle == InitTitle /\ [][NextTitle]_vars

\* The pull request view's merge, update-branch and checkout-default-branch handlers.
InitView ==
    /\ CredIdle
    /\ CreateIdle
    /\ ResolveIdle
    /\ TitleIdle
    /\ ViewInit
    /\ CheckoutInit
    /\ PublishIdle

restView == <<credVars, createVars, resolveVars, titleVars, publishVars>>

NextView ==
    \/ mergePullRequest /\ UNCHANGED <<restView, checkoutVars>>
    \/ mergeSettled /\ UNCHANGED <<restView, checkoutVars>>
    \/ updateBranch /\ UNCHANGED <<restView, checkoutVars>>
    \/ repositoryChanged /\ UNCHANGED <<restView, checkoutVars>>
    \/ checkoutDefaultBranch /\ UNCHANGED <<restView, viewVars>>
    \/ defaultBranchSettled /\ UNCHANGED <<restView, viewVars>>
    \/ checkoutSettled /\ UNCHANGED <<restView, viewVars>>
    \/ cleanupSettled /\ UNCHANGED <<restView, viewVars>>
    \/ headChanged /\ UNCHANGED <<restView, viewVars>>

SpecView == InitView /\ [][NextView]_vars

\* The git.onDidPublish handler, with the settings and the managers changing under it.
InitPublish ==
    /\ CredIdle
    /\ CreateIdle
    /\ ResolveIdle
    /\ TitleIdle
    /\ ViewIdle
    /\ CheckoutIdle
    /\ PublishInit

restPublish == <<credVars, createVars, resolveVars, titleVars, viewVars, checkoutVars>>

NextPublish ==
    \/ onDidPublish /\ UNCHANGED restPublish
    \/ defaultsSettled /\ UNCHANGED restPublish
    \/ promptAnswered /\ UNCHANGED restPublish
    \/ branchPublishChanged /\ UNCHANGED restPublish
    \/ managersChanged /\ UNCHANGED restPublish

SpecPublish == InitPublish /\ [][NextPublish]_vars

(***************************************************************************)
(*                            The properties                               *)
(***************************************************************************)

\* C1: when initialize runs with forceNewSession and the user does not consent to the
\* login prompt, it returns (does not throw) with canceled = true, and the hubs, the
\* session ids and the scopes of both providers are what they were before the call.
C1_ForcedLoginNotConsented ==
    [][(lastInit'.ran /\ lastInit'.force /\ lastInit'.error = NotConsent)
         => /\ lastInit'.outcome = "return"
            /\ lastInit'.canceled
            /\ Credentials(Store)' = Credentials(Store)]_vars

\* recreate returned canceled after the user declined, and the hub of an earlier create
\* is still there.
C1_Witness ==
    /\ op = "recreate" /\ pc = "idle"
    /\ lastInit.ran /\ lastInit.force /\ lastInit.error = NotConsent
    /\ result.canceled /\ ~result.threw
    /\ githubAPI = "s1" /\ sessionId = "s1"

\* C2: an answer to the sign-in notification other than 'Sign In' sets the flag to
\* false; once it is false it stays false, and every call of showSignInNotification
\* returns undefined at once, shows nothing and sends no event (so login is not called).
C2_DontAskAgain ==
    [][/\ (pc = "showSignInNotification.asked" /\ pc' = "idle")
            => promptForSignIn' = "false"
       /\ promptForSignIn = "false"
            => /\ promptForSignIn' = "false"
               /\ pc' # "showSignInNotification.asked"
               /\ (pc = "idle" /\ op' = "showSignInNotification")
                    => /\ pc' = "idle"
                       /\ result' = NoResult
                       /\ shown' = <<>>
                       /\ telemetry' = <<>>]_vars

\* showSignInNotification was called again after the answer was remembered.
C2_Witness ==
    /\ promptForSignIn = "false"
    /\ op = "showSignInNotification" /\ pc = "idle"
    /\ telemetry = <<>> /\ shown = <<>> /\ result = NoResult

\* The events of login among the telemetry sent.
AuthEvents(events) ==
    SelectSeq(events, LAMBDA e : e \in {"auth.start", "auth.success", "auth.fail"})

C4_OnDoneAndNotification ==
    createOut.command = "pr.create" =>
        IF createOut.createPullRequest > 0 /\ createIn.createdPR = "pr"
        THEN /\ createOut.onDone = <<"pr">>
             /\ createIn.post # "ok"
                  => /\ createOut.errorMessages # <<>>
                     /\ ~createOut.rejected
                     /\ \A i \in DOMAIN createOut.replies : createOut.replies[i] # "error"
        ELSE createOut.onDone = <<>>

\* C5: createPullRequest is called only if checkForChanges returned true; it returns
\* false when the dialog is dismissed; and when it returned false there is exactly one
\* empty reply, the create method is not saved, the CREATING context is not set and
\* createPullRequest is not called.
C5_NoCreateWithoutCheck ==
    createOut.command = "pr.create" =>
        /\ createOut.createPullRequest > 0 => createOut.checked
        /\ (createIn.changes /\ createIn.dialog = undefined) => ~createOut.checked
        /\ ~createOut.checked
             => /\ createOut.replies = <<"{}">>
                /\ ~createOut.saved
                /\ createOut.creating = <<>>
                /\ createOut.createPullRequest = 0
                /\ createOut.onDone = <<>>

\* The dialog was dismissed and the request answered with one empty reply.
C5_Witness ==
    /\ createOut.command = "pr.create"
    /\ createIn.changes /\ createIn.dialog = undefined
    /\ ~createOut.checked
    /\ createOut.replies = <<"{}">>
    /\ previousCreateMethod = undefined

\* C6, as the specification states it: with local changes and the answer 'Commit', a
\* pull request is created only if applyChanges was called with the entered message
\* and returned true.
C6_CommitBeforeCreate ==
    (/\ createOut.command = "pr.create"
     /\ createIn.changes /\ createIn.dialog = apply
     /\ createOut.createPullRequest > 0)
        => /\ createOut.applyChanges = <<createIn.commitMessage>>
           /\ createIn.applied

\* Whether a 'reset' comes before the first 'pr.initialize' of the messages.
ResetBeforeInitialize(messages) ==
    \A i \in DOMAIN messages :
        messages[i] = "pr.initialize" => \E j \in 1..(i - 1) : messages[j] = "reset"

\* The 'reset' messages among the messages.
Resets(messages) == Len(SelectSeq(messages, LAMBDA m : m = "reset"))

\* C7, as the specification states it: the webview gets a 'reset' before its first
\* 'pr.initialize', and once the first load is over no step sends a 'reset'.
C7_ResetBeforeFirstInitialize ==
    [][/\ ResetBeforeInitialize(posted')
       /\ ~firstLoad => Resets(posted') = Resets(posted)]_vars

\* C8, as the specification states it (description source not 'none', branch name and
\* tip commit title there, compare result there when the branch has an upstream): one
\* non-merge commit gives the commit title; more than one give the capitalized branch
\* name, or the commit title on the default branch; no upstream gives the commit title.
C8_DefaultTitle ==
    (/\ titleOut.called
     /\ titleIn.descrptionSource # "none"
     /\ titleIn.name # <<>> /\ titleIn.lastCommit # <<>>
     /\ ~(titleIn.upstream /\ titleIn.compareFails))
        => LET n == Len(SelectSeq(titleIn.commits, LAMBDA parents : parents < 2))
           IN  /\ (titleIn.upstream /\ n = 1) => titleOut.title = titleIn.lastCommit
               /\ (titleIn.upstream /\ n > 1)
                    => titleOut.title =
                         IF titleIn.name = titleIn.defaultBranch
                         THEN titleIn.lastCommit
                         ELSE <<toUpperCase(Head(titleIn.name))>> \o Tail(titleIn.name)
               /\ ~titleIn.upstream => titleOut.title = titleIn.lastCommit

\* C9: folderRepositoryManager.mergePullRequest is called only after the answer 'Yes'
\* to the modal; after any other answer it is not called and the one reply has the
\* state Open; after 'Yes' and a merge result the one reply has the state Merged if
\* the result says merged and Open if not.
C9_MergeNeedsYes ==
    viewOut.command = "pr.merge" =>
        /\ viewOut.mergePullRequest > 0
             => viewOut.asked = 1 /\ viewIn.confirmation = yes
        /\ (viewOut.asked = 1 /\ viewIn.confirmation # yes)
             => viewOut.mergePullRequest = 0 /\ viewOut.replies = <<Open>>
        /\ (viewIn.confirmation = yes /\ ~merging /\ viewIn.result # "throws")
             => viewOut.replies = <<IF viewIn.result = "merged" THEN Merged ELSE Open>>

\* The user said 'Yes', the merge did not happen and the reply says Open.
C9_Witness ==
    /\ viewOut.command = "pr.merge"
    /\ viewIn.confirmation = yes /\ viewIn.result = "not merged"
    /\ viewOut.mergePullRequest = 1
    /\ viewOut.replies = <<Open>>

\* C10: when the working tree or the index has changes, updateBranch does not call
\* tryMergeBaseIntoHead, does not call getMergeability, and answers with exactly one
\* empty reply.
C10_NoUpdateWithChanges ==
    (/\ viewOut.command = "pr.update-branch"
     /\ (viewIn.workingTreeChanges > 0 \/ viewIn.indexChanges > 0))
        => /\ viewOut.tryMergeBaseIntoHead = 0
           /\ viewOut.getMergeability = 0
           /\ viewOut.replies = <<"{}">>

\* The index alone had changes and the request got its one empty reply.
C10_Witness ==
    /\ viewOut.command = "pr.update-branch"
    /\ viewIn.workingTreeChanges = 0 /\ viewIn.indexChanges > 0
    /\ viewOut.replies = <<"{}">>
    /\ viewOut.errorMessages # <<>>

\* How many times entry is in log.
Count(log, entry) == Len(SelectSeq(log, LAMBDA x : x = entry))

\* C11: a 'pr.checkout-default-branch' request gets at most one reply while it runs and
\* exactly one, as its last step, once it is over, whether getting the default branch,
\* the checkout or the cleanup succeeded or threw; cleanupAfterPullRequest is called
\* only after the checkout completed and only if HEAD had a name before the checkout.
C11_OneReplyAndCleanupAfterCheckout ==
    /\ checkoutPc # "idle" => Count(checkoutLog, "reply") = 0
    /\ (checkoutPc = "idle" /\ checkoutLog # <<>>)
         => /\ Count(checkoutLog, "reply") = 1
            /\ checkoutLog[Len(checkoutLog)] = "reply"
    /\ \A i \in DOMAIN checkoutLog :
         checkoutLog[i] = "cleanupAfterPullRequest"
           => /\ i > 1 /\ checkoutLog[i - 1] = "checked out"
              /\ headBefore \notin {undefined, ""}
              /\ Count(checkoutLog, "cleanupAfterPullRequest") = 1

\* The cleanup threw after a checkout from a named branch and the request was answered.
C11_Witness ==
    /\ checkoutPc = "idle"
    /\ headBefore = "pr-branch"
    /\ checkoutLog = <<"getPullRequestRepositoryDefaultBranch", "checkoutDefaultBranch",
                       "checked out", "cleanupAfterPullRequest", "reply">>

\* C12: the prompt is shown for a publish event only if the event carries a branch,
\* the branchPublish setting the handler read is 'ask', the review manager of the
\* repository was not creating a pull request, a folder manager of the repository was
\* there with at least one GitHub repository, and the branch is not the default base.
C12_PromptOnlyWhenAsked ==
    (publishPc = "prompt" \/ publishOut.shown > 0)
        => /\ publishIn.branch \notin {undefined, ""}
           /\ publishIn.branchPublish = "ask"
           /\ publishIn.reviewManager # "creating"
           /\ publishIn.folderManager /\ publishIn.gitHubRepositories >= 1
           /\ publishIn.base \in {"main", "dev"} /\ publishIn.base # publishIn.branch
           /\ publishOut.shown = 1

\* The prompt was shown for a branch other than the base and answered with
\* 'Don't Show Again'.
C12_Witness ==
    /\ publishPc = "idle"
    /\ publishOut.shown = 1
    /\ publishIn.branch = "feature" /\ publishIn.base = "main"
    /\ publishIn.branchPublish = "ask" /\ branchPublish = "never"
====
